---- MODULE Spec2Model ----
(***************************************************************************)
(* Model of src/customer_service_analysis.py (class                        *)
(* CustomerServiceAnalysis) and of src/run_analysis.py (main).             *)
(*                                                                         *)
(* Strings the code computes on (the base-36 order_number, the decimal    *)
(* order_id, errand_action) are sequences of one-character strings;        *)
(* categorical values the code only compares are TLA+ strings.  A missing  *)
(* value (None / NaN) is NA.  Columns whose values decide none of the      *)
(* modelled branches (errand_category, errand_type, the timestamps, the    *)
(* route, journey type, booking source, customer group and revenue) are    *)
(* carried as column names only: their cells are taken to be present.      *)
(***************************************************************************)
EXTENDS Integers, Sequences, FiniteSets, TLC

\* ------------------------------------------------------------------ bounds
MaxErrands == 2
MaxOrders == 2
MaxCalls == 2

\* --------------------------------------------------------------- constants
\* A missing cell (None / NaN): NA in a column of plain strings, NoText in a
\* column of character sequences.
NA == "<NA>"
NoText == <<NA>>
CancelSentinel == "Schedule Change - refund"
ChangeSentinels == {"Schedule change: Primary Alternative", "Cancel part of order"}

ErrandColumns ==
    {"order_number", "created", "errand_channel", "errand_category",
     "errand_type", "errand_action"}

OrderColumns ==
    {"order_id", "order_created_at", "Origin_Country", "Destination_Country",
     "Journey_Type_ID", "booking_system_source_type", "Is_Canceled",
     "cancel_reason", "Is_Changed", "change_reason", "Revenue",
     "Customer_Group_Type"}

\* The keys of the dict generate_all_analyses builds, in evaluation order.
AnalysisKeys ==
    <<"avg_contacts", "errand_dist", "channel_dist", "time_patterns",
      "travel_details", "cancellation_dist", "change_dist",
      "financial_patterns">>

KeySet == {AnalysisKeys[i] : i \in 1..Len(AnalysisKeys)}

\* ------------------------------------------------------- sequence helpers
RECURSIVE Flatten(_)
Flatten(ss) == IF ss = <<>> THEN <<>> ELSE Head(ss) \o Flatten(Tail(ss))

Range(s) == {s[i] : i \in 1..Len(s)}

SeqsUpTo(S, n) == UNION {[1..k -> S] : k \in 0..n}

Count(s, v) == Cardinality({i \in 1..Len(s) : s[i] = v})

\* -------------------------------------------------- int(x, 36) and str(n)
Digits36 ==
    <<"0", "1", "2", "3", "4", "5", "6", "7", "8", "9", "a", "b", "c", "d",
      "e", "f", "g", "h", "i", "j", "k", "l", "m", "n", "o", "p", "q", "r",
      "s", "t", "u", "v", "w", "x", "y", "z">>

Upper36 ==
    <<"0", "1", "2", "3", "4", "5", "6", "7", "8", "9", "A", "B", "C", "D",
      "E", "F", "G", "H", "I", "J", "K", "L", "M", "N", "O", "P", "Q", "R",
      "S", "T", "U", "V", "W", "X", "Y", "Z">>

IsDigit36(c) == \E i \in 1..36 : Digits36[i] = c \/ Upper36[i] = c

DigitValue(c) == (CHOOSE i \in 1..36 : Digits36[i] = c \/ Upper36[i] = c) - 1

\* int(x, 36) raises ValueError on an empty string or a character that is no
\* base-36 digit (signs, blanks and underscores are outside the model's
\* alphabet).
IntBase36Raises(x) == x = <<>> \/ \E i \in 1..Len(x) : ~IsDigit36(x[i])

RECURSIVE IntBase36(_)
IntBase36(x) ==
    IF x = <<>> THEN 0
    ELSE IntBase36(SubSeq(x, 1, Len(x) - 1)) * 36 + DigitValue(x[Len(x)])

RECURSIVE Str(_)
Str(n) ==
    IF n < 10 THEN <<Digits36[n + 1]>>
    ELSE Str(n \div 10) \o <<Digits36[(n % 10) + 1]>>

\* The lambda of line 22: str(int(x, 36)).
DecodeOrderNumber(x) == Str(IntBase36(x))

\* ------------------------------------------------------------ percentages
\* numpy's round(2) of count / base * 100, in hundredths of a percent
\* (round half to even on the exact quotient).
Round2Pct(count, base) ==
    LET n == count * 10000
        q == n \div base
        r == n % base
    IN  IF 2 * r < base THEN q
        ELSE IF 2 * r > base THEN q + 1
        ELSE IF q % 2 = 0 THEN q ELSE q + 1

\* Series.value_counts(): the count of every non-missing value (missing is
\* the column's marker of a missing cell).
ValueCounts(values, missing) ==
    [v \in Range(values) \ {missing} |-> Count(values, v)]

\* (counts / base * 100).round(2): an empty Series when counts is empty,
\* whatever base is (no element is divided).
RoundedPercentages(counts, base) ==
    [k \in DOMAIN counts |-> Round2Pct(counts[k], base)]

\* counts / base * 100 without rounding, as the exact fraction num / den.
ExactPercentages(counts, base) ==
    [k \in DOMAIN counts |-> [num |-> counts[k] * 100, den |-> base]]

\* Series.plot(kind='bar') on an empty Series raises IndexError (pandas reads
\* the first tick position of the bar plot).
BarPlotRaises(series) == DOMAIN series = {}

\* ------------------------------------------------------------- data frames
\* A DataFrame: its column names, its rows in order, and the columns held
\* as an ordered Categorical.
DataFrame(columns, rows) ==
    [columns |-> columns, rows |-> rows, categorical |-> {}]

EmptyFrame == DataFrame({}, <<>>)

\* Faulty variant: how='left', which keeps a left row without a match, its right
\* columns missing.
LeftMerge(left, right) ==
    LET Matches(l) ==
            SelectSeq(right.rows, LAMBDA r : r.order_id = l.order_number)
        Unmatched(l) ==
            l @@ [order_id |-> NoText, Is_Canceled |-> 0, cancel_reason |-> NA,
                  Is_Changed |-> 0, change_reason |-> NA]
        Pair(l) ==
            IF Matches(l) = <<>> THEN <<Unmatched(l)>>
            ELSE [j \in 1..Len(Matches(l)) |-> l @@ Matches(l)[j]]
    IN  [columns |-> left.columns \cup right.columns,
         rows |-> Flatten([i \in 1..Len(left.rows) |-> Pair(left.rows[i])]),
         categorical |-> {}]

\* pd.merge(left, right, left_on='order_number', right_on='order_id',
\* how='inner'): one row per (left row, right row) pair with equal keys, in the
\* order of the left rows and, for one left row, of the right rows.
InnerMerge(left, right) ==
    LET Matches(l) ==
            SelectSeq(right.rows, LAMBDA r : r.order_id = l.order_number)
        Pair(l) ==
            [j \in 1..Len(Matches(l)) |-> l @@ Matches(l)[j]]
    IN  [columns |-> left.columns \cup right.columns,
         rows |-> Flatten([i \in 1..Len(left.rows) |-> Pair(left.rows[i])]),
         categorical |-> {}]

\* CustomerServiceAnalysis._preprocess_data, statement by statement; raised
\* names the exception that ends it ("none": it returns).
preprocess_data(errands, orders) ==
    LET decoded ==
            [errands EXCEPT !.rows =
                [i \in 1..Len(errands.rows) |->
                    [errands.rows[i] EXCEPT !.order_number =
                        DecodeOrderNumber(errands.rows[i].order_number)]]]
        stamped ==
            [decoded EXCEPT !.columns = @ \cup {"errand_created_at"}]
        named ==
            [stamped EXCEPT !.columns = @ \cup {"day_of_week"}]
        Out(raised, e, m) ==
            [raised |-> raised, errands_df |-> e, orders_df |-> orders,
             merged_df |-> m]
    IN  IF "order_number" \notin errands.columns
            THEN Out("KeyError", errands, EmptyFrame)
        ELSE IF \E i \in 1..Len(errands.rows) :
                    IntBase36Raises(errands.rows[i].order_number)
            THEN Out("ValueError", errands, EmptyFrame)
        ELSE IF "order_id" \notin orders.columns
            THEN Out("KeyError", decoded, EmptyFrame)
        ELSE IF "created" \notin errands.columns
            THEN Out("KeyError", decoded, EmptyFrame)
        ELSE IF "order_created_at" \notin orders.columns
            THEN Out("KeyError", stamped, EmptyFrame)
        ELSE Out("none", named, InnerMerge(named, orders))

\* ------------------------------------------------------- reclassification
\* Faulty variant: the sentinel compared in another spelling, so no row matches.
ReclassifyCanceledMisspelt(rows) ==
    [i \in 1..Len(rows) |->
        IF rows[i].Is_Canceled = 0
           /\ rows[i].cancel_reason = "Schedule change - refund"
            THEN [rows[i] EXCEPT !.Is_Canceled = 1]
            ELSE rows[i]]

\* Faulty variant: the mask without its test of cancel_reason, so every flag
\* that is 0 is raised.
ReclassifyCanceledAnyReason(rows) ==
    [i \in 1..Len(rows) |->
        IF rows[i].Is_Canceled = 0
            THEN [rows[i] EXCEPT !.Is_Canceled = 1]
            ELSE rows[i]]

\* Lines 263-267: Is_Canceled = 1 where Is_Canceled == 0 and cancel_reason is
\* the sentinel.
ReclassifyCanceled(rows) ==
    [i \in 1..Len(rows) |->
        IF rows[i].Is_Canceled = 0 /\ rows[i].cancel_reason = CancelSentinel
            THEN [rows[i] EXCEPT !.Is_Canceled = 1]
            ELSE rows[i]]

\* Faulty variant: the flag assigned from the mask itself, which clears it on every
\* row whose change_reason is no sentinel.
ReclassifyChangedFromMask(rows) ==
    [i \in 1..Len(rows) |->
        [rows[i] EXCEPT !.Is_Changed =
            IF rows[i].change_reason \in ChangeSentinels THEN 1 ELSE 0]]

\* Lines 309-316: Is_Changed = 1 where Is_Changed == 0 and change_reason is one
\* of the two sentinels.
ReclassifyChanged(rows) ==
    [i \in 1..Len(rows) |->
        IF rows[i].Is_Changed = 0 /\ rows[i].change_reason \in ChangeSentinels
            THEN [rows[i] EXCEPT !.Is_Changed = 1]
            ELSE rows[i]]

\* A flag a module reads that reclassification would still change.
StaleCanceled(rows) == ReclassifyCanceled(rows) # rows
StaleChanged(rows) == ReclassifyChanged(rows) # rows

\* ----------------------------------------------------- errand_action prefix
\* s.split(sep)[0]: the part of s before the first sep, all of s without one.
RECURSIVE SplitFirst(_, _)
SplitFirst(s, sep) ==
    IF s = <<>> \/ Head(s) = sep THEN <<>>
    ELSE <<Head(s)>> \o SplitFirst(Tail(s), sep)

\* Lines 91-95.
categorize_errand_action(action) ==
    IF action = NoText THEN NoText
    ELSE SplitFirst(SplitFirst(action, ":"), ".")

Column(rows, name) == [i \in 1..Len(rows) |-> rows[i][name]]

\* --------------------------------------------------------- metric modules
\* What one analyze_* call does: the merged table it leaves, the exception it
\* ends with ("none": it returns value), the columns it assigned, and whether
\* it read a flag that reclassification would still change.
Ret(df, raised, value, wrote, stale) ==
    [df |-> df, raised |-> raised, value |-> value, wrote |-> wrote,
     stale |-> stale]

NoValue == [kind |-> "none"]

Raise(df, raised, wrote) == Ret(df, raised, NoValue, wrote, FALSE)

\* Lines 41-60.  plt.bar draws an empty chart for an empty table; the mean of
\* no group is NaN.
analyze_contacts_per_order(df) ==
    LET contacts_per_order == ValueCounts(Column(df.rows, "order_number"), NoText)
    IN  Ret(df, "none",
            [kind |-> "avg_contacts",
             nan |-> DOMAIN contacts_per_order = {},
             num |-> Len(df.rows),
             den |-> Cardinality(DOMAIN contacts_per_order)],
            {}, FALSE)

\* Lines 62-77.
analyze_channel_distribution(df) ==
    IF "errand_channel" \notin df.columns THEN Raise(df, "KeyError", {})
    ELSE
    LET channel_distribution == ValueCounts(Column(df.rows, "errand_channel"), NA)
        percentages == ExactPercentages(channel_distribution, Len(df.rows))
    IN  IF BarPlotRaises(percentages) THEN Raise(df, "IndexError", {})
        ELSE Ret(df, "none",
                 [kind |-> "channel_dist", percentages |-> percentages],
                 {}, FALSE)

\* Line 98: the assignment of the derived column errand_action_category.
WithActionCategory(df) ==
    [df EXCEPT
        !.columns = @ \cup {"errand_action_category"},
        !.rows = [i \in 1..Len(df.rows) |->
                    [errand_action_category |->
                        categorize_errand_action(df.rows[i].errand_action)]
                    @@ df.rows[i]]]

\* Lines 80-137.  errand_category and errand_type cells are present, so their
\* two distributions are empty exactly when the table is.
analyze_errand_categories(df) ==
    IF "errand_category" \notin df.columns THEN Raise(df, "KeyError", {})
    ELSE IF "errand_type" \notin df.columns THEN Raise(df, "KeyError", {})
    ELSE IF "errand_action" \notin df.columns THEN Raise(df, "KeyError", {})
    ELSE
    LET df1 == WithActionCategory(df)
        action_counts ==
            ValueCounts(Column(df1.rows, "errand_action_category"), NoText)
        action_percentages == RoundedPercentages(action_counts, Len(df1.rows))
        wrote == {"errand_action_category"}
    IN  IF df1.rows = <<>> THEN Raise(df1, "IndexError", wrote)
        ELSE IF BarPlotRaises(action_percentages)
            THEN Raise(df1, "IndexError", wrote)
        ELSE Ret(df1, "none",
                 [kind |-> "errand_dist", action_dist |-> action_percentages,
                  total |-> Len(df1.rows)],
                 wrote, FALSE)

\* Lines 163-170: day_of_week is overwritten as an ordered Categorical and
\* hour_of_day is added.
WithDayAndHour(df) ==
    [df EXCEPT
        !.columns = @ \cup {"day_of_week", "hour_of_day"},
        !.categorical = @ \cup {"day_of_week"}]

\* Lines 138-214.  On an empty table the line plot of line 150 may raise or
\* not (linePlotRaises: either outcome); the bar plot of the empty hour
\* distribution does.
analyze_time_patterns(df, linePlotRaises) ==
    IF df.rows = <<>> /\ linePlotRaises THEN Raise(df, "Exception", {})
    ELSE
    LET df1 == WithDayAndHour(df)
        wrote == {"day_of_week", "hour_of_day"}
    IN  IF df1.rows = <<>> THEN Raise(df1, "IndexError", wrote)
        ELSE Ret(df1, "none",
                 [kind |-> "time_patterns", total |-> Len(df1.rows)],
                 wrote, FALSE)

\* Lines 215-258.
analyze_travel_details(df) ==
    IF {"Origin_Country", "Destination_Country"} \ df.columns # {}
        THEN Raise(df, "KeyError", {})
    ELSE IF "Journey_Type_ID" \notin df.columns THEN Raise(df, "KeyError", {})
    ELSE IF df.rows = <<>> THEN Raise(df, "IndexError", {})
    ELSE IF "booking_system_source_type" \notin df.columns
        THEN Raise(df, "KeyError", {})
    ELSE Ret(df, "none",
             [kind |-> "travel_details", total |-> Len(df.rows)], {}, FALSE)

\* Faulty variant: the filtered frame assigned back, which drops every row that is
\* not canceled.
WriteCanceledKeepingCanceled(df) ==
    [df EXCEPT !.rows =
        SelectSeq(ReclassifyCanceled(df.rows), LAMBDA r : r.Is_Canceled = 1)]

\* Lines 262-267: the reclassification write of analyze_cancellations.
WriteCanceled(df) == [df EXCEPT !.rows = ReclassifyCanceled(df.rows)]

\* Lines 260-304.
analyze_cancellations(df) ==
    IF "Is_Canceled" \notin df.columns THEN Raise(df, "KeyError", {})
    ELSE IF "cancel_reason" \notin df.columns THEN Raise(df, "KeyError", {})
    ELSE
    LET df1 == WriteCanceled(df)
        canceled == SelectSeq(df1.rows, LAMBDA r : r.Is_Canceled = 1)
        cancel_reasons == ValueCounts(Column(canceled, "cancel_reason"), NA)
        cancel_percentages == RoundedPercentages(cancel_reasons, Len(canceled))
        wrote == {"Is_Canceled"}
        stale == StaleCanceled(df1.rows)
    IN  IF {"Origin_Country", "Destination_Country"} \ df.columns # {}
            THEN Ret(df1, "KeyError", NoValue, wrote, stale)
        ELSE IF "Journey_Type_ID" \notin df.columns
            THEN Ret(df1, "KeyError", NoValue, wrote, stale)
        ELSE IF BarPlotRaises(cancel_percentages)
            THEN Ret(df1, "IndexError", NoValue, wrote, stale)
        ELSE Ret(df1, "none",
                 [kind |-> "cancellation_dist", reasons |-> cancel_percentages,
                  base |-> Len(canceled)],
                 wrote, stale)

\* Faulty variant: the change mask assigned to the column Is_Canceled, a
\* column analyze_cancellations reads.
WriteChangedIntoCanceled(df) ==
    [df EXCEPT !.rows =
        [i \in 1..Len(df.rows) |->
            IF df.rows[i].Is_Changed = 0
               /\ df.rows[i].change_reason \in ChangeSentinels
            THEN [df.rows[i] EXCEPT !.Is_Canceled = 1]
            ELSE df.rows[i]]]

\* Lines 308-316: the reclassification write of analyze_changes.
WriteChanged(df) == [df EXCEPT !.rows = ReclassifyChanged(df.rows)]

\* Lines 306-353.
analyze_changes(df) ==
    IF "Is_Changed" \notin df.columns THEN Raise(df, "KeyError", {})
    ELSE IF "change_reason" \notin df.columns THEN Raise(df, "KeyError", {})
    ELSE
    LET df1 == WriteChanged(df)
        changed == SelectSeq(df1.rows, LAMBDA r : r.Is_Changed = 1)
        change_reasons == ValueCounts(Column(changed, "change_reason"), NA)
        change_percentages == RoundedPercentages(change_reasons, Len(changed))
        wrote == {"Is_Changed"}
        stale == StaleChanged(df1.rows)
    IN  IF {"Origin_Country", "Destination_Country"} \ df.columns # {}
            THEN Ret(df1, "KeyError", NoValue, wrote, stale)
        ELSE IF "Journey_Type_ID" \notin df.columns
            THEN Ret(df1, "KeyError", NoValue, wrote, stale)
        ELSE IF BarPlotRaises(change_percentages)
            THEN Ret(df1, "IndexError", NoValue, wrote, stale)
        ELSE Ret(df1, "none",
                 [kind |-> "change_dist", reasons |-> change_percentages,
                  base |-> Len(changed)],
                 wrote, stale)

\* Lines 355-403.  Customer_Group_Type cells are present, so both
\* distributions are empty exactly when the table is.
analyze_financial_patterns(df) ==
    IF "Customer_Group_Type" \notin df.columns THEN Raise(df, "KeyError", {})
    ELSE IF "Revenue" \notin df.columns THEN Raise(df, "KeyError", {})
    ELSE IF df.rows = <<>> THEN Raise(df, "IndexError", {})
    ELSE Ret(df, "none",
             [kind |-> "financial_patterns", total |-> Len(df.rows)], {}, FALSE)

\* The method behind each key of the dict of lines 409-418.
RunModule(key, df, linePlotRaises) ==
    CASE key = "avg_contacts" -> analyze_contacts_per_order(df)
      [] key = "errand_dist" -> analyze_errand_categories(df)
      [] key = "channel_dist" -> analyze_channel_distribution(df)
      [] key = "time_patterns" -> analyze_time_patterns(df, linePlotRaises)
      [] key = "travel_details" -> analyze_travel_details(df)
      [] key = "cancellation_dist" -> analyze_cancellations(df)
      [] key = "change_dist" -> analyze_changes(df)
      [] key = "financial_patterns" -> analyze_financial_patterns(df)

\* ------------------------------------------------------------------ state
VARIABLES
    errands_df,     \* self.errands_df
    orders_df,      \* self.orders_df
    merged_df,      \* self.merged_df (EmptyFrame stands for None)
    pc,             \* "new", "init_failed", "ready", "gen", "returned", "exited"
    step,           \* the entry of the dict literal being evaluated, 1..8
    analyses,       \* the values of the dict literal evaluated so far
    results,        \* what generate_all_analyses returned: "pending", "dict", "None"
    last,           \* the latest call: its key, its exception, its value
    calls,          \* direct analyze_* calls made on the object
    reclassified,   \* how often each reclassification write has run
    observedStale,  \* some call read a flag reclassification would still change
    exit_code       \* main's return value, -1 while it runs

vars ==
    <<errands_df, orders_df, merged_df, pc, step, analyses, results, last,
      calls, reclassified, observedStale, exit_code>>

ErrandRow(order_number, errand_channel, errand_action) ==
    [order_number |-> order_number, errand_channel |-> errand_channel,
     errand_action |-> errand_action]

OrderRow(order_id, Is_Canceled, cancel_reason, Is_Changed, change_reason) ==
    [order_id |-> order_id, Is_Canceled |-> Is_Canceled,
     cancel_reason |-> cancel_reason, Is_Changed |-> Is_Changed,
     change_reason |-> change_reason]

\* The two parquet files as read by lines 11-12, and the object before
\* _preprocess_data runs.
InitWith(columnSets, errandRows, orderRows) ==
    /\ \E c \in columnSets :
        /\ \E r \in SeqsUpTo(errandRows, MaxErrands) :
                errands_df = DataFrame(c \cap ErrandColumns, r)
        /\ \E r \in SeqsUpTo(orderRows, MaxOrders) :
                orders_df = DataFrame(c \cap OrderColumns, r)
    /\ merged_df = EmptyFrame
    /\ pc = "new"
    /\ step = 0
    /\ analyses = <<>>
    /\ results = "pending"
    /\ last = [key |-> "none", raised |-> "none", value |-> NoValue]
    /\ calls = 0
    /\ reclassified = [Is_Canceled |-> 0, Is_Changed |-> 0]
    /\ observedStale = FALSE
    /\ exit_code = -1

\* How a call's writes move the reclassification counters.
Counted(r) ==
    [f \in {"Is_Canceled", "Is_Changed"} |->
        reclassified[f] + (IF f \in r.wrote THEN 1 ELSE 0)]

\* ---------------------------------------------------------------- actions
\* CustomerServiceAnalysis.__init__ (lines 9-17).
Construct ==
    /\ pc = "new"
    /\ LET r == preprocess_data(errands_df, orders_df)
       IN  /\ errands_df' = r.errands_df
           /\ orders_df' = r.orders_df
           /\ merged_df' = r.merged_df
           /\ pc' = IF r.raised = "none" THEN "ready" ELSE "init_failed"
           /\ last' = [key |-> "__init__", raised |-> r.raised, value |-> NoValue]
    /\ UNCHANGED <<step, analyses, results, calls, reclassified, observedStale,
                   exit_code>>

\* A caller invokes one analyze_* method on the constructed object; an
\* exception goes to the caller and the object stays usable.
Call(key) ==
    /\ pc = "ready"
    /\ calls < MaxCalls
    /\ \E linePlotRaises \in BOOLEAN :
        LET r == RunModule(key, merged_df, linePlotRaises)
        IN  /\ merged_df' = r.df
            /\ last' = [key |-> key, raised |-> r.raised, value |-> r.value]
            /\ reclassified' = Counted(r)
            /\ observedStale' = (observedStale \/ r.stale)
    /\ calls' = calls + 1
    /\ UNCHANGED <<errands_df, orders_df, pc, step, analyses, results, exit_code>>

\* main calls generate_all_analyses (run_analysis.py line 28).
GenStart ==
    /\ pc = "ready"
    /\ pc' = "gen"
    /\ step' = 1
    /\ UNCHANGED <<errands_df, orders_df, merged_df, analyses, results, last,
                   calls, reclassified, observedStale, exit_code>>

\* One entry of the dict literal of lines 409-418.  An exception leaves the
\* try block: line 428 prints it and line 429 returns None.
GenStep ==
    /\ pc = "gen"
    /\ step <= Len(AnalysisKeys)
    /\ \E linePlotRaises \in BOOLEAN :
        LET key == AnalysisKeys[step]
            r == RunModule(key, merged_df, linePlotRaises)
        IN  /\ merged_df' = r.df
            /\ last' = [key |-> key, raised |-> r.raised, value |-> r.value]
            /\ reclassified' = Counted(r)
            /\ observedStale' = (observedStale \/ r.stale)
            /\ IF r.raised = "none"
                 THEN /\ analyses' = (key :> r.value) @@ analyses
                      /\ step' = step + 1
                      /\ UNCHANGED <<pc, results>>
                 ELSE /\ results' = "None"
                      /\ pc' = "returned"
                      /\ UNCHANGED <<analyses, step>>
    /\ UNCHANGED <<errands_df, orders_df, calls, exit_code>>

\* Lines 420-425: every value is checked against None and the dict returned.
GenReturn ==
    /\ pc = "gen"
    /\ step = Len(AnalysisKeys) + 1
    /\ results' = "dict"
    /\ pc' = "returned"
    /\ UNCHANGED <<errands_df, orders_df, merged_df, step, analyses, last, calls,
                   reclassified, observedStale, exit_code>>

\* run_analysis.py lines 20-100: an exception of the constructor, or the
\* TypeError of subscripting None at line 32, is printed and main returns 1;
\* otherwise the results are printed and it returns 0.
MainExit ==
    /\ pc \in {"init_failed", "returned"}
    /\ exit_code' = IF pc = "returned" /\ results = "dict" THEN 0 ELSE 1
    /\ pc' = "exited"
    /\ UNCHANGED <<errands_df, orders_df, merged_df, step, analyses, results,
                   last, calls, reclassified, observedStale>>

\* ----------------------------------------------------------- specifications
AllColumns == ErrandColumns \cup OrderColumns

\* The columns of the two input files: all the required ones, or all but one.
ColumnSets == {AllColumns} \cup {AllColumns \ {c} : c \in AllColumns}

Upgrade == <<"b", ".", "m", ":", "u">>

MainErrands == {ErrandRow(t, "chat", Upgrade) : t \in {<<"1">>, <<"2">>}}

MainOrders ==
    {OrderRow(<<"1">>, 0, NA, 0, NA),
     OrderRow(<<"1">>, 0, CancelSentinel, 0, "Cancel part of order"),
     OrderRow(<<"1">>, 1, "Other", 1, "Other"),
     OrderRow(<<"1">>, 1, NA, 0, "Schedule change: Primary Alternative")}

\* run_analysis.py: construct, generate_all_analyses, report, exit.
Init ==
    InitWith(ColumnSets, MainErrands, MainOrders)

Next == Construct \/ GenStart \/ GenStep \/ GenReturn \/ MainExit

Spec == Init /\ [][Next]_vars

\* The reclassification alone: orders over every flag and reason of one side,
\* the other side left unflagged, and the two methods that reclassify called
\* in any order, repeatedly.
ReclassOrders ==
    {OrderRow(<<"1">>, f, r, 0, NA) :
        f \in {0, 1}, r \in {NA, CancelSentinel, "Other"}}
    \cup
    {OrderRow(<<"1">>, 0, NA, f, r) :
        f \in {0, 1}, r \in {NA, "Other"} \cup ChangeSentinels}

InitReclass ==
    InitWith({AllColumns}, {ErrandRow(<<"1">>, "chat", Upgrade)}, ReclassOrders)

NextReclass ==
    Construct \/ Call("cancellation_dist") \/ Call("change_dist")

SpecReclass == InitReclass /\ [][NextReclass]_vars

\* The join alone: contacts over base-36 tokens (two spellings of 1, an upper
\* case digit, a two-digit token, a character that is no digit) and orders
\* over decimal ids (one of them not canonical), then the constructor and the
\* volume module.
JoinTokens == {<<"1">>, <<"0", "1">>, <<"A">>, <<"1", "0">>, <<"#">>}

JoinOrderIds == {<<"1">>, <<"1", "0">>, <<"3", "6">>, <<"0", "1">>}

InitJoin ==
    InitWith({AllColumns},
             {ErrandRow(t, "chat", Upgrade) : t \in JoinTokens},
             {OrderRow(id, 0, NA, 0, NA) : id \in JoinOrderIds})

NextJoin == Construct \/ Call("avg_contacts")

SpecJoin == InitJoin /\ [][NextJoin]_vars

\* The percentage bases: contacts whose channel or action may be missing,
\* orders whose reason may be missing, and the four methods that count those
\* fields, called in any order.
Refund == <<"r", ":", "p">>

PctErrands ==
    {ErrandRow(<<"1">>, c, a) :
        c \in {"chat", "email", NA}, a \in {Upgrade, Refund, NoText}}

PctOrders ==
    {OrderRow(<<"1">>, 1, NA, 1, NA),
     OrderRow(<<"1">>, 1, "Other", 1, "Other"),
     OrderRow(<<"1">>, 0, NA, 0, NA)}

InitPct == InitWith({AllColumns}, PctErrands, PctOrders)

NextPct ==
    \/ Construct
    \/ Call("channel_dist")
    \/ Call("errand_dist")
    \/ Call("cancellation_dist")
    \/ Call("change_dist")

SpecPct == InitPct /\ [][NextPct]_vars

\* The object's public methods: after the constructor, any analyze_* method
\* in any order, repeatedly.
ApiOrders ==
    {OrderRow(<<"1">>, 0, NA, 0, NA),
     OrderRow(<<"1">>, 0, CancelSentinel, 0, "Cancel part of order"),
     OrderRow(<<"1">>, 1, "Other", 1, "Other")}

InitApi ==
    InitWith({AllColumns}, {ErrandRow(<<"1">>, "chat", Upgrade)}, ApiOrders)

NextApi == Construct \/ \E key \in KeySet : Call(key)

SpecApi == InitApi /\ [][NextApi]_vars

\* Every order of the eight modules, over orders whose flags and reasons
\* disagree in each direction.
OrderingOrders ==
    {OrderRow(<<"1">>, 0, "Other", 0, "Cancel part of order"),
     OrderRow(<<"1">>, 0, CancelSentinel, 0, "Other"),
     OrderRow(<<"1">>, 1, "Other", 1, NA)}

InitOrdering ==
    InitWith({AllColumns}, {ErrandRow(<<"1">>, "chat", Upgrade)}, OrderingOrders)

NextOrdering == Construct \/ \E key \in KeySet : Call(key)

SpecOrdering == InitOrdering /\ [][NextOrdering]_vars

\* The merged table as the constructor left it: lines 32-38 applied to the
\* two frames the object keeps, which no method assigns afterwards.
FreshMerged == InnerMerge(errands_df, orders_df)

\* The place of a key in the dict literal of lines 409-418.
Position(key) == CHOOSE i \in 1..Len(AnalysisKeys) : AnalysisKeys[i] = key

\* The merged table after the first n entries of the dict literal have been
\* evaluated on df.
RECURSIVE TableAfter(_, _, _)
TableAfter(n, df, linePlotRaises) ==
    IF n = 0 THEN df
    ELSE RunModule(AnalysisKeys[n], TableAfter(n - 1, df, linePlotRaises),
                   linePlotRaises).df

\* What the method behind key does at its place in generate_all_analyses.
InGenerateOrder(key, df, linePlotRaises) ==
    RunModule(key, TableAfter(Position(key) - 1, df, linePlotRaises),
              linePlotRaises)

\* ------------------------------------------------------------------ claims
\* The required columns (spec section 6) that the two input files lack.
MissingColumns == AllColumns \ (errands_df.columns \cup orders_df.columns)

Canceled(rows) == SelectSeq(rows, LAMBDA r : r.Is_Canceled = 1)
Changed(rows) == SelectSeq(rows, LAMBDA r : r.Is_Changed = 1)

\* C1: when generate_all_analyses has returned, each of the two
\* reclassification writes has run exactly once, and no call has read a flag
\* that reclassification would still change.
C1_ReclassifiedOnceBeforeReads ==
    /\ pc = "returned" =>
        reclassified.Is_Canceled = 1 /\ reclassified.Is_Changed = 1
    /\ ~observedStale

\* C2: when generate_all_analyses has returned after one module raised, it
\* returned a dict, and every other module ran to completion and has its
\* result in it.
C2_PartialBundleOnFailure ==
    (pc = "returned" /\ last.raised # "none") =>
        /\ results = "dict"
        /\ KeySet \ {last.key} \subseteq DOMAIN analyses

\* C8: with a required column missing from an input, no metric module is ever
\* called: the run ends in the constructor.
C8_MissingColumnFailsBeforeModules ==
    MissingColumns # {} => last.key \in {"none", "__init__"}

\* C9: with every required column present, when the merged table has no row,
\* or no canceled row, or no changed row, generate_all_analyses returns a dict
\* holding all eight keys.
C9_EmptyBasesStillReturnBundle ==
    (/\ pc = "returned"
     /\ MissingColumns = {}
     /\ \/ merged_df.rows = <<>>
        \/ Canceled(merged_df.rows) = <<>>
        \/ Changed(merged_df.rows) = <<>>)
    => (results = "dict" /\ DOMAIN analyses = KeySet)

\* The merged table as the join built it (errands_df holds the decoded
\* order_number once the constructor has run).
JoinedRows == InnerMerge(errands_df, orders_df).rows

\* C3: once a reclassification has run, every row with the cancellation
\* sentinel has Is_Canceled = 1, respectively every row with one of the two
\* change sentinels has Is_Changed = 1.
C3_SentinelRowsFlagged ==
    /\ reclassified.Is_Canceled > 0 =>
        \A i \in 1..Len(merged_df.rows) :
            merged_df.rows[i].cancel_reason = CancelSentinel
                => merged_df.rows[i].Is_Canceled = 1
    /\ reclassified.Is_Changed > 0 =>
        \A i \in 1..Len(merged_df.rows) :
            merged_df.rows[i].change_reason \in ChangeSentinels
                => merged_df.rows[i].Is_Changed = 1

\* C3's case: both reclassifications have run on a table where a sentinel row
\* of each kind came out of the join with its flag at 0.
C3_Witness ==
    /\ reclassified.Is_Canceled > 0
    /\ reclassified.Is_Changed > 0
    /\ \E i \in 1..Len(merged_df.rows) :
        /\ JoinedRows[i].cancel_reason = CancelSentinel
        /\ JoinedRows[i].Is_Canceled = 0
        /\ merged_df.rows[i].Is_Canceled = 1
    /\ \E i \in 1..Len(merged_df.rows) :
        /\ JoinedRows[i].change_reason \in ChangeSentinels
        /\ JoinedRows[i].Is_Changed = 0
        /\ merged_df.rows[i].Is_Changed = 1

\* C4: no call turns a flag that is 1 to 0, and a call made after a
\* reclassification has already run leaves every flag of that kind as it was.
C4_ReclassificationIdempotentMonotonic ==
    [][pc = "ready" =>
        /\ Len(merged_df'.rows) = Len(merged_df.rows)
        /\ \A i \in 1..Len(merged_df.rows) :
            /\ merged_df.rows[i].Is_Canceled = 1
                => merged_df'.rows[i].Is_Canceled = 1
            /\ merged_df.rows[i].Is_Changed = 1
                => merged_df'.rows[i].Is_Changed = 1
            /\ reclassified.Is_Canceled > 0
                => merged_df'.rows[i].Is_Canceled = merged_df.rows[i].Is_Canceled
            /\ reclassified.Is_Changed > 0
                => merged_df'.rows[i].Is_Changed = merged_df.rows[i].Is_Changed
      ]_vars

\* C4's case: the cancellation reclassification has run twice on a table in
\* which it raised a flag, next to a row whose flag was 1 from the start.
C4_Witness ==
    /\ reclassified.Is_Canceled >= 2
    /\ \E i \in 1..Len(merged_df.rows) :
        /\ JoinedRows[i].Is_Canceled = 0
        /\ merged_df.rows[i].Is_Canceled = 1
    /\ \E i \in 1..Len(merged_df.rows) :
        /\ JoinedRows[i].Is_Canceled = 1
        /\ JoinedRows[i].cancel_reason # CancelSentinel

Min(a, b) == IF a <= b THEN a ELSE b

\* No decoded contact token equals any order_id.
KeysDisjoint ==
    \A i \in 1..Len(errands_df.rows), j \in 1..Len(orders_df.rows) :
        errands_df.rows[i].order_number # orders_df.rows[j].order_id

\* No two orders share an order_id.
OrderIdsDistinct ==
    \A i, j \in 1..Len(orders_df.rows) :
        orders_df.rows[i].order_id = orders_df.rows[j].order_id => i = j

\* C5 as stated: the merged table has at most min(contacts, orders) rows, and
\* none when no decoded token equals an order_id.
C5_JoinAtMostMin ==
    pc = "ready" =>
        /\ Len(merged_df.rows) <= Min(Len(errands_df.rows), Len(orders_df.rows))
        /\ KeysDisjoint => merged_df.rows = <<>>

\* C5 amended: the merged table has at most contacts x orders rows, at most
\* one per contact when the order ids are distinct, and none when no decoded
\* token equals an order_id.
C5_JoinCardinality ==
    pc = "ready" =>
        /\ Len(merged_df.rows) <= Len(errands_df.rows) * Len(orders_df.rows)
        /\ OrderIdsDistinct => Len(merged_df.rows) <= Len(errands_df.rows)
        /\ KeysDisjoint => merged_df.rows = <<>>

\* C5's case: contacts fan out over one order, so the merged table has more
\* rows than min(contacts, orders) although the order ids are distinct.
C5_Witness ==
    /\ pc = "ready"
    /\ OrderIdsDistinct
    /\ Len(merged_df.rows) > Min(Len(errands_df.rows), Len(orders_df.rows))

RECURSIVE SumOver(_, _)
SumOver(f, S) ==
    IF S = {} THEN 0
    ELSE LET k == CHOOSE x \in S : TRUE
         IN  f[k] + SumOver(f, S \ {k})

\* A rounded distribution (hundredths of a percent) sums to 100 within 0.1.
SumsTo100(dist) ==
    LET total == SumOver(dist, DOMAIN dist)
    IN  9990 <= total /\ total <= 10010

\* An unrounded distribution of fractions over one denominator sums to 100
\* within 0.1.
ExactSumsTo100(dist, den) ==
    LET total == SumOver([k \in DOMAIN dist |-> dist[k].num], DOMAIN dist)
    IN  /\ 10 * (total - 100 * den) <= den
        /\ 10 * (100 * den - total) <= den

\* C6: every percentage distribution a module returns on a non-empty merged
\* table sums to 100 within 0.1.
C6_PercentagesSumTo100 ==
    (pc = "ready" /\ last.raised = "none" /\ merged_df.rows # <<>>) =>
        /\ last.key = "channel_dist" =>
            ExactSumsTo100(last.value.percentages, Len(merged_df.rows))
        /\ last.key = "errand_dist" => SumsTo100(last.value.action_dist)
        /\ last.key \in {"cancellation_dist", "change_dist"} =>
            SumsTo100(last.value.reasons)

\* The rows whose errand_action is present.
WithAction(rows) == SelectSeq(rows, LAMBDA r : r.errand_action # NoText)

\* C7: a row without errand_action gets no action category, and the action
\* percentages are taken over the rows that have an errand_action.
C7_ActionBaseExcludesAbsent ==
    (pc = "ready" /\ last.key = "errand_dist" /\ last.raised = "none") =>
        /\ \A i \in 1..Len(merged_df.rows) :
            merged_df.rows[i].errand_action = NoText
                => merged_df.rows[i].errand_action_category = NoText
        /\ last.value.action_dist =
            RoundedPercentages(
                ValueCounts(Column(WithAction(merged_df.rows),
                                   "errand_action_category"), NoText),
                Len(WithAction(merged_df.rows)))

\* The cells of the joined input columns other than the two flags.
InputFields ==
    {"order_number", "errand_channel", "errand_action", "order_id",
     "cancel_reason", "change_reason"}

C11_OrderIndependent ==
    (pc = "ready" /\ last.key \in KeySet) =>
        \E linePlotRaises \in BOOLEAN :
            LET e == InGenerateOrder(last.key, FreshMerged, linePlotRaises)
            IN  last.raised = e.raised /\ last.value = e.value

\* analyze_cancellations returned a value after analyze_changes had run and
\* written the table, the reverse of the order of generate_all_analyses.
C11_Witness ==
    /\ pc = "ready"
    /\ last.key = "cancellation_dist"
    /\ last.raised = "none"
    /\ reclassified.Is_Changed = 1
    /\ merged_df # FreshMerged
    /\ Changed(merged_df.rows) # Changed(FreshMerged.rows)

\* C12: a call of analyze_cancellations or analyze_changes keeps the rows and
\* the columns of the merged table, keeps every field other than the two
\* flags on every row, keeps Is_Canceled on every row whose cancel_reason is
\* not the cancellation sentinel, and keeps Is_Changed on every row whose
\* change_reason is not one of the two change sentinels.
C12_ReclassificationFrame ==
    [][(pc = "ready") =>
        /\ merged_df'.columns = merged_df.columns
        /\ Len(merged_df'.rows) = Len(merged_df.rows)
        /\ \A i \in 1..Len(merged_df.rows) :
            /\ DOMAIN merged_df'.rows[i] = DOMAIN merged_df.rows[i]
            /\ \A f \in (DOMAIN merged_df.rows[i]) \ {"Is_Canceled", "Is_Changed"} :
                    merged_df'.rows[i][f] = merged_df.rows[i][f]
            /\ merged_df.rows[i].cancel_reason # CancelSentinel
                => merged_df'.rows[i].Is_Canceled = merged_df.rows[i].Is_Canceled
            /\ merged_df.rows[i].change_reason \notin ChangeSentinels
                => merged_df'.rows[i].Is_Changed = merged_df.rows[i].Is_Changed
      ]_vars

\* C12's case: the change reclassification has run on two rows with
\* Is_Changed = 0, raised the flag of the one whose change_reason is
\* "Cancel part of order" and left the one whose change_reason is "Other".
C12_Witness ==
    /\ pc = "ready"
    /\ reclassified.Is_Changed >= 1
    /\ \E i, j \in 1..Len(merged_df.rows) :
        /\ JoinedRows[i].change_reason = "Cancel part of order"
        /\ JoinedRows[i].Is_Changed = 0
        /\ merged_df.rows[i].Is_Changed = 1
        /\ JoinedRows[j].change_reason = "Other"
        /\ JoinedRows[j].Is_Changed = 0
        /\ merged_df.rows[j] = JoinedRows[j]

====
